---- MODULE Spec2Model ----
(***************************************************************************)
(* Model of src/compositional-patterns-reference.jsx: the quick-action     *)
(* menu CurrentQuickActionsMenu and the composition-pattern variants       *)
(* that surround it.                                                       *)
(*                                                                         *)
(* JavaScript values are modelled by strings: "undefined", "null",         *)
(* "true", "false".  An object that may be absent is a record with a       *)
(* boolean field `defined`.  A React element is a record [type, key];      *)
(* the props handed to the buttons (item, asset) are not modelled.  The    *)
(* identifiers the file uses without declaring them (SaveToLibraryButton,  *)
(* EditButton, EditHoverButton, MoreOptionsButton, transformedAsset) are   *)
(* taken to be bound by the enclosing module.                              *)
(***************************************************************************)
EXTENDS Integers, Sequences, FiniteSets, TLC

VARIABLES config, flags, item, editHoverButton, actionButtons, rendered,
          patterns, held

vars == <<config, flags, item, editHoverButton, actionButtons, rendered, patterns, held>>

inputs == <<config, flags, item, editHoverButton>>

----------------------------------------------------------------------------
(* Imported constants                                                      *)

TEMPLATE_TYPE_AE_PROJ == "AE_PROJECT"

TEMPLATE_TYPE_PPRO_PROJ == "PREMIERE_PROJECT"

isEditHoverButtonInTimelineEnabledFF == [id |-> "edit-hover-button-in-timeline"]

isTimelineSingleAssetEditorEnabledFF == [id |-> "timeline-single-asset-editor"]

----------------------------------------------------------------------------
(* Input domains                                                           *)

\* what useConfig() may return: nothing, {}, {disableLibraryFeatures: b}
ConfigValues ==
  {[defined |-> FALSE, disableLibraryFeatures |-> "undefined"]}
    \cup {[defined |-> TRUE, disableLibraryFeatures |-> v] :
            v \in {"undefined", "false", "true"}}

\* one entry of the object useFeatureFlags() returns: absent key, {},
\* {value: false}, {value: true}
FlagRecords ==
  {[defined |-> FALSE, value |-> "undefined"]}
    \cup {[defined |-> TRUE, value |-> v] : v \in {"undefined", "false", "true"}}

FlagIds == {isEditHoverButtonInTimelineEnabledFF.id, isTimelineSingleAssetEditorEnabledFF.id}

FlagSets == [FlagIds -> FlagRecords]

\* the item prop: null, or an object with a templateTypeId
ItemValues ==
  {[defined |-> FALSE, templateTypeId |-> "undefined"]}
    \cup {[defined |-> TRUE, templateTypeId |-> t] :
            t \in {TEMPLATE_TYPE_AE_PROJ, TEMPLATE_TYPE_PPRO_PROJ, "IMAGE", "unrecognized"}}

\* the editHoverButton prop: null (its default) or a component
EditHoverButtonValues == {"null", "SingleAssetEditHoverButton"}

----------------------------------------------------------------------------
(* JavaScript operators                                                    *)

\* a ?? b
Nullish(a, b) == IF a \in {"undefined", "null"} THEN b ELSE a

\* truthiness of a value
Truthy(a) == a \notin {"undefined", "null", "false"}

\* destructuring default: x = d
Default(a, d) == IF a = "undefined" THEN d ELSE a

\* a React element
Element(type, key) == [type |-> type, key |-> key]

\* what a component returns: null, an element with children, or a throw
ReturnsNull == [status |-> "null", children |-> <<>>]

Returns(children) == [status |-> "element", children |-> children]

Throws == [status |-> "error", children |-> <<>>]

NotRendered == [status |-> "unmounted", children |-> <<>>]

----------------------------------------------------------------------------
(* CurrentQuickActionsMenu                                                 *)

\* config?.disableLibraryFeatures ?? false
disableLibraryFeaturesOf(cfg) ==
  Nullish(IF cfg.defined THEN cfg.disableLibraryFeatures ELSE "undefined", "false")

\* variant: a flag without a value counts as set
FlagDefaultTrue == "true"

\* { [id]: { value: x = false } = {} } = useFeatureFlags()
FlagDefault == "false"

FlagValue(fl, id) ==
  LET rec == IF fl[id].defined THEN fl[id] ELSE [defined |-> TRUE, value |-> "undefined"]
  IN  Default(rec.value, FlagDefault)

isEditHoverButtonInTimelineEnabled(fl) ==
  FlagValue(fl, isEditHoverButtonInTimelineEnabledFF.id)

isTimelineSingleAssetEditorEnabled(fl) ==
  FlagValue(fl, isTimelineSingleAssetEditorEnabledFF.id)

\* [TEMPLATE_TYPE_AE_PROJ, TEMPLATE_TYPE_PPRO_PROJ].includes(templateTypeId)
isProjectFile(templateTypeId) ==
  templateTypeId \in {TEMPLATE_TYPE_AE_PROJ, TEMPLATE_TYPE_PPRO_PROJ}

\* variant: the template type is not looked at
showSaveIgnoringTemplateType(cfg, it) ==
  ~Truthy(disableLibraryFeaturesOf(cfg))

showSaveToLibraryButton(cfg, it) ==
  ~Truthy(disableLibraryFeaturesOf(cfg)) /\ ~isProjectFile(it.templateTypeId)

\* variant: the buttons array is shared between calls
SharedButtons == actionButtons

\* const buttons = []
NewButtons == <<>>

SaveButtons(cfg, it) ==
  IF showSaveToLibraryButton(cfg, it)
    THEN <<Element("SaveToLibraryButton", "save-to-library")>>
    ELSE <<>>

\* variant: a final else pushes a plain edit button
EditButtonsWithBaseline(fl, SingleAssetEditHoverButton) ==
  IF Truthy(isTimelineSingleAssetEditorEnabled(fl)) /\ Truthy(SingleAssetEditHoverButton)
    THEN <<Element(SingleAssetEditHoverButton, "single-asset-edit")>>
    ELSE IF ~Truthy(isTimelineSingleAssetEditorEnabled(fl))
              /\ Truthy(isEditHoverButtonInTimelineEnabled(fl))
      THEN <<Element("EditHoverButton", "edit-hover")>>
      ELSE <<Element("EditButton", "edit")>>

\* variant: the else-if does not test the single-asset-editor flag
EditButtonsFallBackToHover(fl, SingleAssetEditHoverButton) ==
  IF Truthy(isTimelineSingleAssetEditorEnabled(fl)) /\ Truthy(SingleAssetEditHoverButton)
    THEN <<Element(SingleAssetEditHoverButton, "single-asset-edit")>>
    ELSE IF Truthy(isEditHoverButtonInTimelineEnabled(fl))
      THEN <<Element("EditHoverButton", "edit-hover")>>
      ELSE <<>>

\* variant: the hover flag is tested first
EditButtonsHoverFirst(fl, SingleAssetEditHoverButton) ==
  IF Truthy(isEditHoverButtonInTimelineEnabled(fl))
    THEN <<Element("EditHoverButton", "edit-hover")>>
    ELSE IF Truthy(isTimelineSingleAssetEditorEnabled(fl))
              /\ Truthy(SingleAssetEditHoverButton)
      THEN <<Element(SingleAssetEditHoverButton, "single-asset-edit")>>
      ELSE <<>>

\* variant: a supplied renderer is used whatever the single-asset-editor flag
EditButtonsRendererFirst(fl, SingleAssetEditHoverButton) ==
  IF Truthy(SingleAssetEditHoverButton)
    THEN <<Element(SingleAssetEditHoverButton, "single-asset-edit")>>
    ELSE IF ~Truthy(isTimelineSingleAssetEditorEnabled(fl))
              /\ Truthy(isEditHoverButtonInTimelineEnabled(fl))
      THEN <<Element("EditHoverButton", "edit-hover")>>
      ELSE <<>>

\* variant: two independent ifs, one per flag
EditButtonsBoth(fl, SingleAssetEditHoverButton) ==
  (IF Truthy(isTimelineSingleAssetEditorEnabled(fl)) /\ Truthy(SingleAssetEditHoverButton)
     THEN <<Element(SingleAssetEditHoverButton, "single-asset-edit")>>
     ELSE <<>>)
  \o (IF Truthy(isEditHoverButtonInTimelineEnabled(fl))
        THEN <<Element("EditHoverButton", "edit-hover")>>
        ELSE <<>>)

EditButtons(fl, SingleAssetEditHoverButton) ==
  IF Truthy(isTimelineSingleAssetEditorEnabled(fl)) /\ Truthy(SingleAssetEditHoverButton)
    THEN <<Element(SingleAssetEditHoverButton, "single-asset-edit")>>
    ELSE IF ~Truthy(isTimelineSingleAssetEditorEnabled(fl))
              /\ Truthy(isEditHoverButtonInTimelineEnabled(fl))
      THEN <<Element("EditHoverButton", "edit-hover")>>
      ELSE <<>>

getActionButtons(cfg, fl, it, SingleAssetEditHoverButton) ==
  NewButtons \o SaveButtons(cfg, it) \o EditButtons(fl, SingleAssetEditHoverButton)

\* variant: the wrapper is returned for an empty list too
RenderButtonsAlwaysWrapper(buttons) == Returns(buttons)

\* if (!actionButtons.length) return null; else the wrapper
RenderButtons(buttons) ==
  IF Len(buttons) = 0 THEN ReturnsNull ELSE Returns(buttons)

\* const { templateTypeId } = item  throws a TypeError for a null item
CurrentQuickActionsMenu(cfg, fl, it, SingleAssetEditHoverButton) ==
  IF ~it.defined
    THEN Throws
    ELSE RenderButtons(getActionButtons(cfg, fl, it, SingleAssetEditHoverButton))

----------------------------------------------------------------------------
(* The composition-pattern variants.  Each is modelled by the buttons it   *)
(* shows, in order; wrapper markup is left out.                            *)

Button(type) == Element(type, "null")

\* cond && <Component />
When(cond, type) == IF cond THEN <<Button(type)>> ELSE <<>>

\* 1. containment
Example1_Containment(cfg, it) ==
  LET disableLibraryFeatures == disableLibraryFeaturesOf(cfg)
  IN  Returns(When(~Truthy(disableLibraryFeatures), "SaveToLibraryButton")
                \o <<Button("EditButton")>>)

\* 2. specialization
QuickActions(showSave, showEdit, it) ==
  Returns(When(showSave, "SaveToLibraryButton") \o When(showEdit, "EditButton"))

EmbedQuickActions(cfg, it) ==
  LET disableLibraryFeatures == disableLibraryFeaturesOf(cfg)
  IN  QuickActions(~Truthy(disableLibraryFeatures), TRUE, it)

StandardQuickActions(it) == QuickActions(TRUE, TRUE, it)

\* 3. higher-order component
withLibraryFeatureConfig(Component(_, _), cfg, it) ==
  LET disableLibraryFeatures == disableLibraryFeaturesOf(cfg)
  IN  Component(it, disableLibraryFeatures)

PureQuickActions(it, disableLibraryFeatures) ==
  Returns(When(~Truthy(disableLibraryFeatures), "SaveToLibraryButton")
            \o <<Button("EditButton")>>)

EnhancedQuickActions(cfg, it) == withLibraryFeatureConfig(PureQuickActions, cfg, it)

\* 4. render props
LibraryFeatureProvider(children(_), cfg) ==
  LET disableLibraryFeatures == disableLibraryFeaturesOf(cfg)
  IN  children(disableLibraryFeatures)

Example4_RenderProps(cfg, it) ==
  LibraryFeatureProvider(
    LAMBDA disableLibraryFeatures :
      Returns(When(~Truthy(disableLibraryFeatures), "SaveToLibraryButton")
                \o <<Button("EditButton")>>),
    cfg)

\* 5. component injection; a component prop is "null" or a component name
QuickActionsContainer(SaveComponent, EditComponent, it) ==
  Returns(When(Truthy(SaveComponent), SaveComponent)
            \o When(Truthy(EditComponent), EditComponent))

Example5_ComponentInjection(cfg, it) ==
  LET disableLibraryFeatures == disableLibraryFeaturesOf(cfg)
  IN  QuickActionsContainer(
        IF ~Truthy(disableLibraryFeatures) THEN "SaveToLibraryButton" ELSE "null",
        "EditButton", it)

\* 6. compound components
QuickActionsManager_Save(it, disableLibraryFeatures) ==
  IF Truthy(disableLibraryFeatures) THEN <<>> ELSE <<Button("SaveToLibraryButton")>>

QuickActionsManager_Edit(it) == <<Button("EditButton")>>

\* clones each child with { item, disableLibraryFeatures }
QuickActionsManager(Save(_, _), Edit(_), cfg, it) ==
  LET disableLibraryFeatures == disableLibraryFeaturesOf(cfg)
  IN  Returns(Save(it, disableLibraryFeatures) \o Edit(it))

Example6_CompoundComponents(cfg, it) ==
  QuickActionsManager(QuickActionsManager_Save, QuickActionsManager_Edit, cfg, it)

\* 7. conditional wrappers; children and fallback are component outputs
IfLibraryFeaturesEnabled(children, fallback, cfg) ==
  LET disableLibraryFeatures == disableLibraryFeaturesOf(cfg)
  IN  IF Truthy(disableLibraryFeatures) THEN fallback ELSE children

\* variant: project files are not filtered out
IfSaveAllowedAnyItem(it, children) ==
  IF ~it.defined THEN Throws ELSE children

\* const { templateTypeId } = item  throws for a null item
IfSaveAllowed(it, children) ==
  IF ~it.defined
    THEN Throws
    ELSE IF isProjectFile(it.templateTypeId) THEN ReturnsNull ELSE children

Example7_ConditionalWrappers(cfg, it) ==
  LET save == IfLibraryFeaturesEnabled(
                IfSaveAllowed(it, Returns(<<Button("SaveToLibraryButton")>>)),
                ReturnsNull, cfg)
  IN  IF save.status = "error"
        THEN Throws
        ELSE Returns(save.children \o <<Button("EditButton")>>)

\* 8. factory; const { disableLibraryFeatures = false } = config throws for
\* an absent config, const { templateTypeId } = item for a null item
createQuickActionsComponent(cfg, it) ==
  IF ~cfg.defined \/ ~it.defined
    THEN Throws
    ELSE LET disableLibraryFeatures == Default(cfg.disableLibraryFeatures, "false")
             showSave == ~Truthy(disableLibraryFeatures)
                           /\ ~isProjectFile(it.templateTypeId)
         IN  Returns(When(showSave, "SaveToLibraryButton") \o <<Button("EditButton")>>)

Example8_Factory(cfg, it) == createQuickActionsComponent(cfg, it)

\* 9. slots; a slot is a list of at most one element
QuickActionsSlots(saveSlot, editSlot, moreSlot) ==
  Returns(saveSlot \o editSlot \o moreSlot)

Example9_Slots(cfg, it) ==
  LET disableLibraryFeatures == disableLibraryFeaturesOf(cfg)
  IN  QuickActionsSlots(When(~Truthy(disableLibraryFeatures), "SaveToLibraryButton"),
                        <<Button("EditButton")>>,
                        <<Button("MoreOptionsButton")>>)

\* 10. context-aware composition; the context value is absent outside the
\* provider
LibraryFeatureContextProvider(cfg) ==
  [defined |-> TRUE, disableLibraryFeatures |-> disableLibraryFeaturesOf(cfg)]

useLibraryFeatureContext(context) ==
  IF ~context.defined
    THEN [thrown |-> TRUE, disableLibraryFeatures |-> "undefined"]
    ELSE [thrown |-> FALSE, disableLibraryFeatures |-> context.disableLibraryFeatures]

ContextAwareQuickActions(context, it) ==
  LET ctx == useLibraryFeatureContext(context)
  IN  IF ctx.thrown
        THEN Throws
        ELSE Returns(When(~Truthy(ctx.disableLibraryFeatures), "SaveToLibraryButton")
                       \o <<Button("EditButton")>>)

\* the exported pattern components, each rendered for the same config and
\* item (ContextAwareQuickActions inside its provider)
VariantNames ==
  {"Example1_Containment", "EmbedQuickActions", "StandardQuickActions",
   "EnhancedQuickActions", "Example4_RenderProps", "Example5_ComponentInjection",
   "Example6_CompoundComponents", "Example7_ConditionalWrappers",
   "Example8_Factory", "Example9_Slots", "ContextAwareQuickActions"}

RenderVariant(v, cfg, it) ==
  CASE v = "Example1_Containment" -> Example1_Containment(cfg, it)
    [] v = "EmbedQuickActions" -> EmbedQuickActions(cfg, it)
    [] v = "StandardQuickActions" -> StandardQuickActions(it)
    [] v = "EnhancedQuickActions" -> EnhancedQuickActions(cfg, it)
    [] v = "Example4_RenderProps" -> Example4_RenderProps(cfg, it)
    [] v = "Example5_ComponentInjection" -> Example5_ComponentInjection(cfg, it)
    [] v = "Example6_CompoundComponents" -> Example6_CompoundComponents(cfg, it)
    [] v = "Example7_ConditionalWrappers" -> Example7_ConditionalWrappers(cfg, it)
    [] v = "Example8_Factory" -> Example8_Factory(cfg, it)
    [] v = "Example9_Slots" -> Example9_Slots(cfg, it)
    [] v = "ContextAwareQuickActions" ->
         ContextAwareQuickActions(LibraryFeatureContextProvider(cfg), it)

----------------------------------------------------------------------------
(* State machine: the component is called again whenever the configuration *)
(* context, the feature-flag context or its props change, or its parent    *)
(* re-renders.                                                             *)

\* patterns: the output of every pattern component, with the config and the
\* item they were rendered for
NoPatterns ==
  [config |-> [defined |-> FALSE, disableLibraryFeatures |-> "undefined"],
   item |-> [defined |-> FALSE, templateTypeId |-> "undefined"],
   output |-> [v \in VariantNames |-> NotRendered]]

\* held: the inputs and the result of a remembered call, and whether a call
\* with other inputs was made since
NoHeld == [inputs |-> <<>>, rendered |-> NotRendered, changed |-> FALSE]

Init ==
  /\ config = [defined |-> FALSE, disableLibraryFeatures |-> "undefined"]
  /\ flags = [id \in FlagIds |-> [defined |-> FALSE, value |-> "undefined"]]
  /\ item = [defined |-> TRUE, templateTypeId |-> "IMAGE"]
  /\ editHoverButton = "null"
  /\ actionButtons = <<>>
  /\ rendered = NotRendered
  /\ patterns = NoPatterns
  /\ held = NoHeld

\* one call of the component with the primed inputs; actionButtons is the
\* list that call accumulated (none when it threw before line 400); a
\* remembered call is marked once a call with other inputs follows it
Call ==
  /\ rendered' = CurrentQuickActionsMenu(config', flags', item', editHoverButton')
  /\ actionButtons' = IF item'.defined
                        THEN getActionButtons(config', flags', item', editHoverButton')
                        ELSE <<>>
  /\ held' = IF held.rendered.status # "unmounted" /\ held.inputs # inputs'
               THEN [held EXCEPT !.changed = TRUE]
               ELSE held

ConfigChanged ==
  /\ \E c \in ConfigValues : config' = c
  /\ UNCHANGED <<flags, item, editHoverButton, patterns>>
  /\ Call

FlagChanged ==
  /\ \E id \in FlagIds, r \in FlagRecords : flags' = [flags EXCEPT ![id] = r]
  /\ UNCHANGED <<config, item, editHoverButton, patterns>>
  /\ Call

PropsChanged ==
  /\ \E it \in ItemValues, b \in EditHoverButtonValues :
        item' = it /\ editHoverButton' = b
  /\ UNCHANGED <<config, flags, patterns>>
  /\ Call

Rerender ==
  /\ UNCHANGED <<config, flags, item, editHoverButton, patterns>>
  /\ Call

\* the pattern components are rendered for the current config and item
RenderPatterns ==
  /\ patterns' = [config |-> config, item |-> item,
                  output |-> [v \in VariantNames |-> RenderVariant(v, config, item)]]
  /\ UNCHANGED <<config, flags, item, editHoverButton, actionButtons, rendered, held>>

\* observer: remember the inputs and the result of the latest call
Hold ==
  /\ rendered.status # "unmounted"
  /\ held' = [inputs |-> inputs, rendered |-> rendered, changed |-> FALSE]
  /\ UNCHANGED <<config, flags, item, editHoverButton, actionButtons, rendered, patterns>>

Next == ConfigChanged \/ FlagChanged \/ PropsChanged \/ Rerender \/ RenderPatterns

Spec == Init /\ [][Next]_vars

NextHeld == ConfigChanged \/ FlagChanged \/ PropsChanged \/ Rerender \/ Hold

SpecHeld == Init /\ [][NextHeld]_vars

TypeOK ==
  /\ config \in ConfigValues
  /\ flags \in FlagSets
  /\ item \in ItemValues
  /\ editHoverButton \in EditHoverButtonValues
  /\ rendered.status \in {"unmounted", "null", "element", "error"}
----------------------------------------------------------------------------
(* Vocabulary of the properties, read off the state                        *)

SAVE_TO_LIBRARY == "SAVE_TO_LIBRARY"

EDIT == "EDIT"

EDIT_HOVER_TIMELINE == "EDIT_HOVER_TIMELINE"

\* the action a button stands for
Kind(e) ==
  CASE e.type = "SaveToLibraryButton" -> SAVE_TO_LIBRARY
    [] e.type \in {"EditButton", "SingleAssetEditHoverButton"} -> EDIT
    [] e.type = "EditHoverButton" -> EDIT_HOVER_TIMELINE
    [] OTHER -> "OTHER"

Kinds(r) == [i \in 1..Len(r.children) |-> Kind(r.children[i])]

Has(r, k) == \E i \in 1..Len(r.children) : Kind(r.children[i]) = k

EditCount(r) ==
  Cardinality({i \in 1..Len(r.children) :
                 Kind(r.children[i]) \in {EDIT, EDIT_HOVER_TIMELINE}})

\* the menu has been called with the current inputs and a non-null item
Resolved == rendered.status # "unmounted" /\ item.defined

LibraryDisabled == config.defined /\ config.disableLibraryFeatures = "true"

ProjectItem == item.templateTypeId \in {"AE_PROJECT", "PREMIERE_PROJECT"}

SaveEligible == ~LibraryDisabled /\ ~ProjectItem

FlagOn(id) == flags[id].defined /\ flags[id].value = "true"

SingleAssetEditorOn == FlagOn("timeline-single-asset-editor")

EditHoverOn == FlagOn("edit-hover-button-in-timeline")

RendererSupplied == editHoverButton # "null"

SavePart == IF SaveEligible THEN <<SAVE_TO_LIBRARY>> ELSE <<>>

EmptyFlags == \A id \in FlagIds : ~flags[id].defined

----------------------------------------------------------------------------
(* C1: the resolved list contains SAVE_TO_LIBRARY if and only if           *)
(* disableLibraryFeatures is not true and the item is not a project file,  *)
(* whatever the two flags and the editHoverButton prop are.                *)
C1_SaveIffEligible ==
  Resolved => (Has(rendered, SAVE_TO_LIBRARY) <=> SaveEligible)

C1_Witness ==
  /\ Resolved /\ Has(rendered, SAVE_TO_LIBRARY)
  /\ SingleAssetEditorOn /\ EditHoverOn /\ RendererSupplied

(* C2 as stated: with neither flag set a plain EDIT descriptor is appended *)
(* unconditionally, so flags={} gives [SAVE_TO_LIBRARY, EDIT] for a        *)
(* save-eligible item and [EDIT] for a disabled library and an AE project. *)
C2_BaselineEditAppended ==
  (Resolved /\ ~SingleAssetEditorOn /\ ~EditHoverOn)
    => Kinds(rendered) = SavePart \o <<EDIT>>

(* C2 amended: with neither flag set no edit descriptor is appended; the   *)
(* result is [SAVE_TO_LIBRARY] for a save-eligible item and empty (nothing *)
(* is rendered) otherwise.                                                 *)
C2_NoBaselineEdit ==
  (Resolved /\ ~SingleAssetEditorOn /\ ~EditHoverOn)
    => /\ Kinds(rendered) = SavePart
       /\ EditCount(rendered) = 0
       /\ (~SaveEligible => rendered = ReturnsNull)

C2_Witness ==
  /\ Resolved /\ EmptyFlags
  /\ config.defined /\ config.disableLibraryFeatures = "true"
  /\ item.templateTypeId = "AE_PROJECT"
  /\ rendered = ReturnsNull

(* C3: with the single-asset-editor flag on and no renderer supplied the   *)
(* result holds no edit action of either kind, even when the hover flag is *)
(* on too; a save-eligible item yields exactly [SAVE_TO_LIBRARY].          *)
C3_NoFallbackToHover ==
  (Resolved /\ SingleAssetEditorOn /\ ~RendererSupplied)
    => /\ EditCount(rendered) = 0
       /\ Kinds(rendered) = SavePart

C3_Witness ==
  /\ Resolved /\ SingleAssetEditorOn /\ EditHoverOn /\ ~RendererSupplied
  /\ Kinds(rendered) = <<SAVE_TO_LIBRARY>>

(* C4: with the single-asset-editor flag on and a renderer supplied the    *)
(* result holds the supplied editor as its EDIT descriptor and no          *)
(* EDIT_HOVER_TIMELINE, whether or not the hover flag is on; a             *)
(* save-eligible item yields exactly [SAVE_TO_LIBRARY, EDIT].              *)
C4_SpecializedEditorWins ==
  (Resolved /\ SingleAssetEditorOn /\ RendererSupplied)
    => /\ Kinds(rendered) = SavePart \o <<EDIT>>
       /\ rendered.children[Len(rendered.children)]
            = Element(editHoverButton, "single-asset-edit")
       /\ ~Has(rendered, EDIT_HOVER_TIMELINE)

C4_Witness ==
  /\ Resolved /\ SingleAssetEditorOn /\ EditHoverOn /\ RendererSupplied
  /\ Kinds(rendered) = <<SAVE_TO_LIBRARY, EDIT>>

(* C5: with the single-asset-editor flag off or absent and the hover flag  *)
(* on, the result holds exactly one edit descriptor, EDIT_HOVER_TIMELINE,  *)
(* after SAVE_TO_LIBRARY when that is present, whether or not a renderer   *)
(* was supplied.                                                           *)
C5_HoverWhenEditorOff ==
  (Resolved /\ ~SingleAssetEditorOn /\ EditHoverOn)
    => /\ Kinds(rendered) = SavePart \o <<EDIT_HOVER_TIMELINE>>
       /\ EditCount(rendered) = 1

C5_Witness ==
  /\ Resolved /\ ~SingleAssetEditorOn /\ EditHoverOn /\ RendererSupplied
  /\ Kinds(rendered) = <<SAVE_TO_LIBRARY, EDIT_HOVER_TIMELINE>>

(* C6: for all inputs the result holds at most one descriptor out of EDIT  *)
(* and EDIT_HOVER_TIMELINE.                                                *)
C6_AtMostOneEdit ==
  Resolved => EditCount(rendered) <= 1

C6_Witness ==
  /\ Resolved /\ SingleAssetEditorOn /\ EditHoverOn /\ RendererSupplied
  /\ EditCount(rendered) = 1

\* the inputs with every default written out
ExplicitConfig ==
  [defined |-> TRUE,
   disableLibraryFeatures |-> IF LibraryDisabled THEN "true" ELSE "false"]

ExplicitFlags ==
  [id \in FlagIds |->
     [defined |-> TRUE, value |-> IF FlagOn(id) THEN "true" ELSE "false"]]

ExplicitItem ==
  [defined |-> TRUE,
   templateTypeId |-> IF ProjectItem THEN item.templateTypeId ELSE "IMAGE"]

(* C7: irregular non-null inputs raise no error and are normalized by      *)
(* defaults: absent config or absent disableLibraryFeatures acts as false, *)
(* an absent flag key or a flag record without value acts as false, an     *)
(* unrecognized templateTypeId acts as a non-project item; the result      *)
(* equals the result for the explicitly defaulted input.                   *)
C7_DefaultsNormalize ==
  Resolved
    => /\ rendered.status # "error"
       /\ rendered = CurrentQuickActionsMenu(ExplicitConfig, ExplicitFlags,
                                             ExplicitItem, editHoverButton)

C7_Witness ==
  /\ Resolved /\ ~config.defined /\ item.templateTypeId = "unrecognized"
  /\ ~flags["timeline-single-asset-editor"].defined
  /\ flags["edit-hover-button-in-timeline"]
       = [defined |-> TRUE, value |-> "undefined"]
  /\ Kinds(rendered) = <<SAVE_TO_LIBRARY>>

(* C8: the result of a call depends on the inputs of that call only: a     *)
(* call whose inputs equal those of an earlier, remembered call returns    *)
(* the list that call returned, whatever calls and changes of config,      *)
(* flags and props came in between.                                        *)
C8_SameInputsSameResult ==
  (held.rendered.status # "unmounted" /\ held.inputs = inputs)
    => rendered = held.rendered

C8_Witness ==
  /\ held.rendered.status = "element" /\ held.changed /\ held.inputs = inputs
  /\ Len(rendered.children) = 2

\* the pattern components were rendered for the current config and item
PatternsCurrent ==
  /\ patterns.output["Example1_Containment"].status # "unmounted"
  /\ patterns.config = config /\ patterns.item = item

ItemAwarePatterns == {"Example7_ConditionalWrappers", "Example8_Factory"}

ConfigOnlyPatterns ==
  VariantNames \ (ItemAwarePatterns \cup {"StandardQuickActions"})

(* C9 as stated: for every configuration and item each pattern variant     *)
(* shows the save-to-library action and an edit action exactly when        *)
(* CurrentQuickActionsMenu does.                                           *)
C9_VariantsAgreeWithCurrent ==
  (Resolved /\ PatternsCurrent)
    => \A v \in VariantNames :
         /\ Has(patterns.output[v], SAVE_TO_LIBRARY) <=> Has(rendered, SAVE_TO_LIBRARY)
         /\ Has(patterns.output[v], EDIT) <=> EditCount(rendered) = 1

(* C9 amended: the conditional-wrapper variant and, for a present          *)
(* configuration, the factory variant show save-to-library exactly when    *)
(* CurrentQuickActionsMenu does (the factory throws for an absent          *)
(* configuration); the variants that read only the configuration show it   *)
(* exactly when disableLibraryFeatures is not true, which agrees with      *)
(* CurrentQuickActionsMenu for every non-project item;                     *)
(* StandardQuickActions always shows it; every variant that renders shows  *)
(* a plain edit button whatever the flags, so it shows an edit action      *)
(* whenever CurrentQuickActionsMenu does.                                  *)
C9_VariantsAmended ==
  (Resolved /\ PatternsCurrent)
    => /\ \A v \in ItemAwarePatterns :
            IF v = "Example8_Factory" /\ ~config.defined
              THEN patterns.output[v].status = "error"
              ELSE Has(patterns.output[v], SAVE_TO_LIBRARY)
                     <=> Has(rendered, SAVE_TO_LIBRARY)
       /\ \A v \in ConfigOnlyPatterns :
            /\ Has(patterns.output[v], SAVE_TO_LIBRARY) <=> ~LibraryDisabled
            /\ ~ProjectItem => (Has(patterns.output[v], SAVE_TO_LIBRARY)
                                  <=> Has(rendered, SAVE_TO_LIBRARY))
       /\ Has(patterns.output["StandardQuickActions"], SAVE_TO_LIBRARY)
       /\ \A v \in VariantNames :
            patterns.output[v].status = "element"
              => /\ Has(patterns.output[v], EDIT)
                 /\ ~Has(patterns.output[v], EDIT_HOVER_TIMELINE)

C9_Witness ==
  /\ Resolved /\ PatternsCurrent /\ ProjectItem /\ ~LibraryDisabled /\ config.defined
  /\ EmptyFlags
  /\ Has(patterns.output["Example1_Containment"], SAVE_TO_LIBRARY)
  /\ ~Has(patterns.output["Example8_Factory"], SAVE_TO_LIBRARY)
  /\ rendered = ReturnsNull

(* C10: an empty action list is a valid outcome and no error: the menu     *)
(* returns null if and only if the accumulated list is empty, and the      *)
(* wrapper holding the actions in accumulated order otherwise; no non-null *)
(* item leads to an error.                                                 *)
C10_EmptyIsNull ==
  Resolved
    => /\ rendered.status \in {"null", "element"}
       /\ rendered.status = "null" <=> actionButtons = <<>>
       /\ rendered.status = "element" => rendered.children = actionButtons
       /\ (~SaveEligible /\ ~EditHoverOn /\ ~SingleAssetEditorOn)
            => rendered = ReturnsNull

C10_Witness ==
  /\ Resolved /\ ProjectItem /\ ~EditHoverOn /\ SingleAssetEditorOn
  /\ ~RendererSupplied
  /\ rendered = ReturnsNull /\ actionButtons = <<>>
====
